---- MODULE Spec2Model ----
(***************************************************************************)
(* Risk decision pipeline of financial-ai-swarm.                           *)
(*                                                                         *)
(* Two entry points process one transaction:                               *)
(*   - the HTTP handler process_transaction of src/api/main.py, a fixed    *)
(*     sequence fraud -> compliance -> spend -> aggregation inside one     *)
(*     try/except that turns any exception into HTTP 500;                  *)
(*   - FinancialOrchestrator.process_transaction of                        *)
(*     src/orchestration/supervisor.py, a LangGraph graph in which a       *)
(*     supervisor node routes to one of six agent nodes or to FINISH.      *)
(*                                                                         *)
(* Both use the ComplianceAgent of src/agents/compliance/agent.py, whose   *)
(* policy texts and vector index are shared by all callers of              *)
(* get_compliance_agent(); add_policy and _retrieve_relevant_policies are  *)
(* modelled statement by statement so that callers interleave.             *)
(*                                                                         *)
(* Scores are fixed point: normalized detector scores and weights are in   *)
(* hundredths, so overall_score is in ten-thousandths; the compliance      *)
(* risk_score is in tenths.                                                *)
(***************************************************************************)
EXTENDS Integers, Sequences, FiniteSets, TLC

\* ------------------------------------------------------------------ bounds

\* Largest number of policy violations a transaction produces.
MaxViolations == 3

\* Supersteps the graph may run before the graph runtime aborts the run
\* (LangGraph's recursion limit, scaled down).
RecursionLimit == 6

\* Width of a non-degenerate detector score distribution, in units of the
\* normalization epsilon.
ScoreRange == 1000

\* Policies _initialize_policy_rag starts with (ten in the source).
InitialPolicies == 2

\* Longest policy list add_policy is explored to.
MaxPolicies == 4

\* Largest k a caller passes to _retrieve_relevant_policies.
MaxK == 3

\* Query embeddings range over 0..MaxQuery.
MaxQuery == 2

\* Hash seeds of a Python process range over 0..MaxSeed.
MaxSeed == 1

\* Values of a categorical field (category, merchant) range over 1..MaxField.
MaxField == 2

\* Longest entity name screened against the sanctions list, in characters.
MaxNameLen == 3

\* Most policies handed to _check_policy_violations in one call.
MaxRetrieved == 2

\* Most transactions in one list given to analyze_spending or batch_detect.
MaxBatch == 2

\* Distance between the overall scores the tiering is compared on, in
\* ten-thousandths.
ScoreStep == 250

\* ------------------------------------------------------- fraud detection

\* self.models: the five detectors of the ensemble.
Detectors == {"isolation_forest", "lof", "knn", "cblof", "hbos"}

\* The ensemble weights, in hundredths.
weights ==
  [isolation_forest |-> 30, lof |-> 25, knn |-> 20, cblof |-> 15, hbos |-> 10]

\* FraudDetectionAgent.THRESHOLDS, in ten-thousandths.
THRESHOLDS == [LOW |-> 3000, MEDIUM |-> 5000, HIGH |-> 7000, CRITICAL |-> 8500]

\* What fitting and scoring one detector yields: it raises, or it gives the
\* sample's raw score with the minimum and maximum of decision_scores_.
\* A detector fitted on the single sample has min = max = score.
DetectorOutcomes ==
  { [raised |-> TRUE,  score |-> 0, dmin |-> 0, dmax |-> 0],
    [raised |-> FALSE, score |-> 0, dmin |-> 0, dmax |-> 0],
    [raised |-> FALSE, score |-> ScoreRange, dmin |-> 0, dmax |-> ScoreRange] }

\* (score - min) / (max - min + 1e-10), in hundredths; the epsilon is one unit
\* of the raw scale.
NormalizedScore(o) == ((o.score - o.dmin) * 100) \div (o.dmax - o.dmin + 1)

\* A detector that raised counted as a neutral 0.5.
AnomalyScoreNeutral(o) == IF o.raised THEN 50 ELSE NormalizedScore(o)

\* anomaly_scores[model_name]: the normalized score, or 0.0 in the handler
\* of a detector that raised.
AnomalyScore(o) == IF o.raised THEN 0 ELSE NormalizedScore(o)

RECURSIVE SumOver(_, _)
SumOver(f, S) ==
  IF S = {} THEN 0
  ELSE LET x == CHOOSE y \in S : TRUE IN f[x] + SumOver(f, S \ {x})

\* The sum of the anomaly scores without their weights.
OverallScoreUnweighted(scores) ==
  SumOver([m \in Detectors |-> scores[m] * 100], Detectors)

\* sum(anomaly_scores.get(model, 0) * weight for model, weight in weights)
OverallScore(scores) ==
  SumOver([m \in Detectors |-> scores[m] * weights[m]], Detectors)

\* The chain with each threshold read as the upper bound of its tier.
RiskLevelUpperBounds(score) ==
  IF score >= THRESHOLDS.HIGH THEN "CRITICAL"
  ELSE IF score >= THRESHOLDS.MEDIUM THEN "HIGH"
  ELSE IF score >= THRESHOLDS.LOW THEN "MEDIUM"
  ELSE "LOW"

\* The chain with the results of its HIGH and MEDIUM branches exchanged.
RiskLevelBranchesSwapped(score) ==
  IF score >= THRESHOLDS.CRITICAL THEN "CRITICAL"
  ELSE IF score >= THRESHOLDS.HIGH THEN "MEDIUM"
  ELSE IF score >= THRESHOLDS.MEDIUM THEN "HIGH"
  ELSE "LOW"

\* The chain with THRESHOLDS.LOW read as well: no tier below it.
RiskLevelLowFloor(score) ==
  IF score >= THRESHOLDS.CRITICAL THEN "CRITICAL"
  ELSE IF score >= THRESHOLDS.HIGH THEN "HIGH"
  ELSE IF score >= THRESHOLDS.MEDIUM THEN "MEDIUM"
  ELSE IF score >= THRESHOLDS.LOW THEN "LOW"
  ELSE "NONE"

\* The if/elif chain on overall_score.
RiskLevel(score) ==
  IF score >= THRESHOLDS.CRITICAL THEN "CRITICAL"
  ELSE IF score >= THRESHOLDS.HIGH THEN "HIGH"
  ELSE IF score >= THRESHOLDS.MEDIUM THEN "MEDIUM"
  ELSE "LOW"

\* Integer square root.
ISqrt(n) == CHOOSE r \in 0..n : r * r <= n /\ (r + 1) * (r + 1) > n

\* np.std of the values of anomaly_scores (population standard deviation),
\* in hundredths.
StdDev(scores) ==
  LET n  == Cardinality(Detectors)
      s  == SumOver(scores, Detectors)
      s2 == SumOver([m \in Detectors |-> scores[m] * scores[m]], Detectors)
  IN  ISqrt(n * s2 - s * s) \div n

\* confidence = 1.0 - (np.std(scores) if scores else 0.5), in hundredths.
Confidence(scores) == 100 - StdDev(scores)

\* A default that reads as a clean result.
FraudDefaultClean ==
  [overall_score |-> 0, risk_level |-> "LOW", anomaly_scores |-> <<>>,
   risk_factors |-> <<>>, confidence |-> 100, error |-> TRUE, warned |-> {}]

\* The safe default of detect_fraud's outer except.  (warned: the detectors
\* the per-detector handler logged a warning for.)
FraudDefault ==
  [overall_score |-> 5000, risk_level |-> "MEDIUM", anomaly_scores |-> <<>>,
   risk_factors |-> <<"Error during analysis">>,
   confidence |-> 0, error |-> TRUE, warned |-> {}]

\* _extract_features parses the timestamp; it raises on a timestamp that is
\* None (model_dump of an omitted field) or that is no ISO string.
FeaturesRaise(t) == t.timestamp # "iso"

\* FraudDetectionAgent.detect_fraud: never raises.
detect_fraud(t) ==
  IF FeaturesRaise(t) THEN FraudDefault
  ELSE LET scores == [m \in Detectors |-> AnomalyScore(t.det[m])]
       IN  [overall_score |-> OverallScore(scores),
            risk_level |-> RiskLevel(OverallScore(scores)),
            anomaly_scores |-> scores,
            confidence |-> Confidence(scores),
            error |-> FALSE,
            warned |-> { m \in Detectors : t.det[m].raised }]

\* ------------------------------------------------------------- compliance

\* The risk score without the min(risk_score, 1.0).
ComplianceRiskScoreUnclamped(sanctions_hit, pep_hit, n) ==
  (IF sanctions_hit THEN 8 ELSE 0) + (IF pep_hit THEN 3 ELSE 0) + n

\* risk_score of check_compliance, in tenths.
ComplianceRiskScore(sanctions_hit, pep_hit, n) ==
  LET raw == (IF sanctions_hit THEN 8 ELSE 0) + (IF pep_hit THEN 3 ELSE 0) + n
  IN  IF raw < 10 THEN raw ELSE 10

\* The status decision with the PEP test ahead of the sanctions test.
ComplianceStatusPepFirst(sanctions_hit, pep_hit, n) ==
  IF pep_hit THEN "REVIEW_REQUIRED"
  ELSE IF sanctions_hit THEN "REJECTED"
  ELSE IF n > 0 THEN "REVIEW_REQUIRED"
  ELSE "APPROVED"

\* The status decision without its last elif: one or two violations alone
\* do not ask for a review.
ComplianceStatusManyViolationsOnly(sanctions_hit, pep_hit, n) ==
  IF sanctions_hit THEN "REJECTED"
  ELSE IF pep_hit \/ n > 2 \/ ComplianceRiskScore(sanctions_hit, pep_hit, n) > 7
    THEN "REVIEW_REQUIRED"
  ELSE "APPROVED"

\* The status decision of check_compliance.
ComplianceStatus(sanctions_hit, pep_hit, n) ==
  IF sanctions_hit THEN "REJECTED"
  ELSE IF pep_hit \/ n > 2 \/ ComplianceRiskScore(sanctions_hit, pep_hit, n) > 7
    THEN "REVIEW_REQUIRED"
  ELSE IF n > 0 THEN "REVIEW_REQUIRED"
  ELSE "APPROVED"

\* ComplianceAgent.check_compliance when policy retrieval returns.
check_compliance(t) ==
  [status |-> ComplianceStatus(t.sanctions_match, t.pep_match, t.violations),
   sanctions_hit |-> t.sanctions_match,
   pep_hit |-> t.pep_match,
   violations |-> t.violations,
   risk_score |-> ComplianceRiskScore(t.sanctions_match, t.pep_match, t.violations)]

\* ------------------------------------------------------- policy retrieval

\* Policy texts are numbered; add_policy may be given any of them, also one
\* that is in the list already.
PolicyTexts == 1..MaxPolicies

\* self.policy_texts as _initialize_policy_rag builds it.
initial_policy_texts == [i \in 1..InitialPolicies |-> i]

\* embedding_model.encode: a fixed function of the text into the vector
\* space, here points of a line; different texts may get the same vector.
Embed(text) == text \div 2

\* The index after _initialize_policy_rag: one vector per text, in order.
initial_policy_index == [i \in 1..InitialPolicies |-> Embed(initial_policy_texts[i])]

\* The query embeddings a transaction's query string may encode to.
Queries == 0..MaxQuery

\* IndexFlatL2's distance: the squared Euclidean distance.
Distance(v, q) == (v - q) * (v - q)

\* Vector i comes before vector j in a search result: nearer to the query,
\* or as near and added earlier.
Nearer(index, q, i, j) ==
  \/ Distance(index[i], q) < Distance(index[j], q)
  \/ Distance(index[i], q) = Distance(index[j], q) /\ i < j

\* policy_index.search(query_embedding, k): the labels (positions counted
\* from 0) of the k nearest vectors by increasing distance; an index that
\* holds fewer than k vectors fills the remaining places with label -1.
Search(index, q, k) ==
  [r \in 1..k |->
     IF r <= Len(index)
       THEN (CHOOSE i \in 1..Len(index) :
               Cardinality({ j \in 1..Len(index) : Nearer(index, q, j, i) }) = r - 1) - 1
       ELSE -1]

\* Whether list[idx] is defined in Python: a negative idx counts from the end.
InRange(list, idx) == idx >= -Len(list) /\ idx < Len(list)

\* list[idx] in Python.
PyIndex(list, idx) == IF idx >= 0 THEN list[idx + 1] ELSE list[Len(list) + idx + 1]

\* No call in progress.
NoCall == [pc |-> "idle"]

\* ------------------------------------------------------------ aggregation

\* The aggregation with the risk level tested ahead of a REJECTED status.
OverallStatusFraudFirst(status, risk_level) ==
  IF risk_level \in {"HIGH", "CRITICAL"} THEN "FLAGGED_FOR_REVIEW"
  ELSE IF status = "REJECTED" THEN "REJECTED"
  ELSE IF status = "REVIEW_REQUIRED" THEN "REVIEW_REQUIRED"
  ELSE "APPROVED"

\* "Determine overall status" of process_transaction.
OverallStatus(status, risk_level) ==
  IF status = "REJECTED" THEN "REJECTED"
  ELSE IF risk_level \in {"HIGH", "CRITICAL"} THEN "FLAGGED_FOR_REVIEW"
  ELSE IF status = "REVIEW_REQUIRED" THEN "REVIEW_REQUIRED"
  ELSE "APPROVED"

\* ----------------------------------------------------------- transactions

\* A value for "no assessment yet".
None == [absent |-> TRUE]

UniformDet(o) == [m \in Detectors |-> o]

NotRun == [raised |-> TRUE, score |-> 0, dmin |-> 0, dmax |-> 0]

\* A transaction with what the collaborators find for it: whether its
\* timestamp is an ISO string ("iso"), None ("none") or another string
\* ("bad"); each detector's outcome on its features; whether _check_sanctions
\* and _check_pep match its merchant; how many violations
\* _check_policy_violations finds.  The detectors do not run on a transaction
\* whose features cannot be extracted.
Transactions ==
  { t \in [timestamp : {"iso", "none", "bad"},
           det : [Detectors -> DetectorOutcomes],
           sanctions_match : BOOLEAN,
           pep_match : BOOLEAN,
           violations : 0..MaxViolations] :
      t.timestamp # "iso" => t.det = UniformDet(NotRun) }

\* The transactions the graph is explored with: one detector outcome for
\* the whole ensemble, at most one compliance signal.
GraphTransactions ==
  { t \in Transactions :
      /\ \E o \in DetectorOutcomes : t.det = UniformDet(o)
      /\ t.violations = 0
      /\ ~(t.sanctions_match /\ t.pep_match) }

\* ------------------------------------------------------------------ state

VARIABLES
  entry,              \* "api": main.py's handler; "graph": the orchestrator;
                      \* "policy": callers of the shared ComplianceAgent;
                      \* "unit": a caller of one method of an agent
  txn,                \* the transaction being processed
  api_pc,             \* position of the handler
  api_calls,          \* the agent calls and the aggregation the handler made
  fraud_result,       \* FraudScore, or None
  compliance_result,  \* ComplianceResult, or None
  spend_result,       \* SpendAnalysis, or None
  response,           \* ProcessTransactionResponse, or None
  use_llm,            \* FinancialOrchestrator(use_llm=...)
  node,               \* the graph node to run next, or how the run ended
  supersteps,         \* node executions of this run
  state,              \* AgentState
  result,             \* what process_transaction returned, or None
  policy_texts,       \* ComplianceAgent.policy_texts
  policy_index,       \* ComplianceAgent.policy_index: the vectors, in order
  add_call,           \* the add_policy call in progress
  retrieve_call,      \* the _retrieve_relevant_policies call in progress
  invocation,         \* a direct call of one method: its name and arguments
  returned            \* what that call returned, or None

api_vars == <<api_pc, api_calls, fraud_result, compliance_result, spend_result,
              response>>
graph_vars == <<use_llm, node, supersteps, state, result>>
policy_vars == <<policy_texts, policy_index, add_call, retrieve_call>>
unit_vars == <<invocation, returned>>
vars == <<entry, txn, api_pc, api_calls, fraud_result, compliance_result,
          spend_result, response, use_llm, node, supersteps, state, result,
          policy_texts, policy_index, add_call, retrieve_call,
          invocation, returned>>

\* AgentState as process_transaction builds it.
initial_state ==
  [messages |-> 1, next |-> "supervisor", fraud_score |-> 0,
   compliance_status |-> "pending", spend_analysis |-> "empty",
   vendor_analysis |-> "empty", explanation |-> "", agent_decisions |-> <<>>]

ApiIdle ==
  /\ api_pc = "start"
  /\ api_calls = <<>>
  /\ fraud_result = None
  /\ compliance_result = None
  /\ spend_result = None
  /\ response = None

GraphIdle ==
  /\ node = "supervisor"
  /\ supersteps = 0
  /\ state = initial_state
  /\ result = None

\* The shared ComplianceAgent after __init__, no call on it in progress.
PolicyIdle ==
  /\ policy_texts = initial_policy_texts
  /\ policy_index = initial_policy_index
  /\ add_call = NoCall
  /\ retrieve_call = NoCall

\* No method is called directly.
UnitIdle ==
  /\ invocation = None
  /\ returned = None

\* A request arrives at POST /api/v1/process-transaction.
InitApi ==
  /\ entry = "api"
  /\ txn \in Transactions
  /\ ApiIdle
  /\ use_llm = FALSE
  /\ GraphIdle
  /\ PolicyIdle
  /\ UnitIdle

\* --------------------------------------------- main.py process_transaction

\* What an external call of a step does: it returns, raises, or never
\* returns.
CallOutcomes == {"returns", "raises", "hangs"}

\* fraud_agent.detect_fraud(transaction.model_dump())
ApiDetectFraud ==
  /\ entry = "api"
  /\ api_pc = "start"
  /\ fraud_result' = detect_fraud(txn)
  /\ api_calls' = Append(api_calls, "fraud_detection")
  /\ api_pc' = "fraud_scored"
  /\ UNCHANGED <<entry, txn, compliance_result, spend_result, response>>
  /\ UNCHANGED graph_vars
  /\ UNCHANGED policy_vars
  /\ UNCHANGED unit_vars

\* The compliance call made without waiting for detect_fraud.
ApiCheckComplianceBeforeFraud ==
  /\ entry = "api"
  /\ api_pc = "start"
  /\ api_calls' = Append(api_calls, "compliance")
  /\ compliance_result' = check_compliance(txn)
  /\ api_pc' = "compliance_checked"
  /\ UNCHANGED <<entry, txn, fraud_result, spend_result, response>>
  /\ UNCHANGED graph_vars
  /\ UNCHANGED policy_vars
  /\ UNCHANGED unit_vars

\* compliance_agent.check_compliance(transaction.model_dump()): the policy
\* retrieval inside it encodes the query and searches the index; an
\* exception leaves the handler through its except clause as HTTP 500, and
\* nothing bounds the call in time.
ApiCheckCompliance ==
  /\ entry = "api"
  /\ api_pc = "fraud_scored"
  /\ api_calls' = Append(api_calls, "compliance")
  /\ \E retrieval \in CallOutcomes :
       CASE retrieval = "returns" ->
              /\ compliance_result' = check_compliance(txn)
              /\ api_pc' = "compliance_checked"
         [] retrieval = "raises" ->
              /\ compliance_result' = compliance_result
              /\ api_pc' = "http_500"
         [] retrieval = "hangs" ->
              /\ compliance_result' = compliance_result
              /\ api_pc' = "blocked"
  /\ UNCHANGED <<entry, txn, fraud_result, spend_result, response>>
  /\ UNCHANGED graph_vars
  /\ UNCHANGED policy_vars
  /\ UNCHANGED unit_vars

\* spend_agent.analyze_spending([transaction.model_dump()])
ApiAnalyzeSpending ==
  /\ entry = "api"
  /\ api_pc = "compliance_checked"
  /\ spend_result' = [analyzed |-> TRUE]
  /\ api_calls' = Append(api_calls, "spend_analysis")
  /\ api_pc' = "spend_analyzed"
  /\ UNCHANGED <<entry, txn, fraud_result, compliance_result, response>>
  /\ UNCHANGED graph_vars
  /\ UNCHANGED policy_vars
  /\ UNCHANGED unit_vars

\* "Determine overall status" and the ProcessTransactionResponse returned.
ApiAggregate ==
  /\ entry = "api"
  /\ api_pc = "spend_analyzed"
  /\ response' =
       [overall_status |->
          OverallStatus(compliance_result.status, fraud_result.risk_level),
        risk_level |-> fraud_result.risk_level,
        score |-> fraud_result.overall_score,
        confidence |-> fraud_result.confidence,
        status |-> compliance_result.status,
        sanctions_hit |-> compliance_result.sanctions_hit,
        pep_hit |-> compliance_result.pep_hit]
  /\ api_calls' = Append(api_calls, "aggregation")
  /\ api_pc' = "responded"
  /\ UNCHANGED <<entry, txn, fraud_result, compliance_result, spend_result>>
  /\ UNCHANGED graph_vars
  /\ UNCHANGED policy_vars
  /\ UNCHANGED unit_vars

NextApi ==
  \/ ApiDetectFraud
  \/ ApiCheckCompliance
  \/ ApiAnalyzeSpending
  \/ ApiAggregate

Spec == InitApi /\ [][NextApi]_vars

\* -------------------------------- supervisor.py FinancialOrchestrator graph

\* self.agents: the six agent nodes.
Agents == {"fraud_detection", "compliance", "spend_analysis",
           "vendor_analysis", "explanation", "learning"}

\* What the supervisor model may answer: an agent, FINISH, or other text.
Responses == Agents \cup {"FINISH", "unknown_agent"}

\* orch.process_transaction(transaction_data) is called.
InitGraph ==
  /\ entry = "graph"
  /\ txn \in GraphTransactions
  /\ ApiIdle
  /\ use_llm \in BOOLEAN
  /\ GraphIdle
  /\ PolicyIdle
  /\ UnitIdle

\* "Validate agent exists" of supervisor_node.
ValidatedRoute(next_agent) ==
  IF next_agent \notin Agents /\ next_agent # "FINISH" THEN "fraud_detection"
  ELSE next_agent

\* The conditional edge out of the supervisor: {name: name} | {"FINISH": END}.
RouteTarget(next) == IF next = "FINISH" THEN "END" ELSE next

\* supervisor_node.  self.model is None unless use_llm, so model.invoke
\* raises AttributeError; the model call itself may return, raise or never
\* return.  An exception leaves graph.ainvoke and process_transaction
\* re-raises it.
SupervisorNode ==
  /\ entry = "graph"
  /\ node = "supervisor"
  /\ supersteps < RecursionLimit
  /\ supersteps' = supersteps + 1
  /\ IF ~use_llm
       THEN /\ node' = "raised"
            /\ state' = state
       ELSE \E call \in CallOutcomes, content \in Responses :
              CASE call = "returns" ->
                     /\ state' = [state EXCEPT !.next = ValidatedRoute(content)]
                     /\ node' = RouteTarget(ValidatedRoute(content))
                [] call = "raises" ->
                     /\ node' = "raised"
                     /\ state' = state
                [] call = "hangs" ->
                     /\ node' = "blocked"
                     /\ state' = state
  /\ UNCHANGED <<entry, txn, use_llm, result>>
  /\ UNCHANGED api_vars
  /\ UNCHANGED policy_vars
  /\ UNCHANGED unit_vars

\* The entry the except clause of agent_node appends.
FailedEntry(agent_name) ==
  [agent |-> agent_name, result |-> [error |-> "exception", status |-> "failed"]]

\* The first fraud_detection result in agent_decisions, or None.
FraudDecision(decisions) ==
  LET hits == { i \in 1..Len(decisions) : decisions[i].agent = "fraud_detection" }
  IN  IF hits = {} THEN None
      ELSE decisions[CHOOSE i \in hits : \A j \in hits : i <= j].result

\* analyze_vendor parses every timestamp that is a string.
VendorRaises(t) == t.timestamp = "bad"

\* What agent_node(agent_name) returns as the update of the state, given how
\* the agent's external call ended ("returns" or "raises"): the fields it
\* sets and agent_decisions with the entry it appended.
AgentUpdate(agent_name, st, t, call) ==
  LET log == st.agent_decisions
      base == [st EXCEPT !.messages = st.messages + 1]
  IN
  CASE agent_name = "fraud_detection" ->
         LET fr == detect_fraud(t) IN
         [base EXCEPT
            !.fraud_score = fr.overall_score,
            !.agent_decisions = Append(log,
               [agent |-> agent_name,
                result |-> [risk_level |-> fr.risk_level,
                            overall_score |-> fr.overall_score,
                            confidence |-> fr.confidence]])]
    [] agent_name = "compliance" ->
         IF call = "raises"
           THEN [base EXCEPT !.agent_decisions = Append(log, FailedEntry(agent_name))]
           ELSE LET cr == check_compliance(t) IN
                [base EXCEPT
                   !.compliance_status = cr.status,
                   !.agent_decisions = Append(log,
                      [agent |-> agent_name,
                       result |-> [status |-> cr.status,
                                   risk_score |-> cr.risk_score,
                                   sanctions_hit |-> cr.sanctions_hit,
                                   pep_hit |-> cr.pep_hit,
                                   findings |-> cr.violations]])]
    [] agent_name = "spend_analysis" ->
         \* spend_result.budget_status: SpendAnalysis has no such attribute
         [base EXCEPT !.agent_decisions = Append(log, FailedEntry(agent_name))]
    [] agent_name = "vendor_analysis" ->
         IF VendorRaises(t)
           THEN [base EXCEPT !.agent_decisions = Append(log, FailedEntry(agent_name))]
           ELSE [base EXCEPT
                   !.vendor_analysis = "profile",
                   !.agent_decisions = Append(log,
                      [agent |-> agent_name, result |-> [vendor |-> "profile"]])]
    [] agent_name = "explanation" ->
         IF FraudDecision(log) = None
           THEN base
           ELSE [base EXCEPT
                   !.explanation = "summary",
                   !.agent_decisions = Append(log,
                      [agent |-> agent_name,
                       result |-> [summary |-> FraudDecision(log).risk_level]])]
    [] agent_name = "learning" ->
         [base EXCEPT !.agent_decisions = Append(log,
            [agent |-> agent_name, result |-> [status |-> "monitoring"]])]

\* The agents whose step makes a call that may raise or never return
\* (the embedding model and the index search of policy retrieval).
ExternalCallers == {"compliance"}

\* agent_node of _create_agent_node, then the edge back to the supervisor.
AgentNode(agent_name) ==
  /\ entry = "graph"
  /\ node = agent_name
  /\ supersteps < RecursionLimit
  /\ supersteps' = supersteps + 1
  /\ \E call \in (IF agent_name \in ExternalCallers THEN CallOutcomes
                  ELSE {"returns"}) :
       IF call = "hangs"
         THEN /\ node' = "blocked"
              /\ state' = state
         ELSE /\ state' = AgentUpdate(agent_name, state, txn, call)
              /\ node' = "supervisor"
  /\ UNCHANGED <<entry, txn, use_llm, result>>
  /\ UNCHANGED api_vars
  /\ UNCHANGED policy_vars
  /\ UNCHANGED unit_vars

\* The graph runtime ends a run that has not finished within the recursion
\* limit with an exception; process_transaction re-raises it.
RecursionLimitReached ==
  /\ entry = "graph"
  /\ node \in Agents \cup {"supervisor"}
  /\ supersteps >= RecursionLimit
  /\ node' = "recursion_error"
  /\ UNCHANGED <<entry, txn, use_llm, supersteps, state, result>>
  /\ UNCHANGED api_vars
  /\ UNCHANGED policy_vars
  /\ UNCHANGED unit_vars

\* _format_results
FormatResults(st) ==
  [fraud_score |-> st.fraud_score,
   compliance_status |-> st.compliance_status,
   spend_analysis |-> st.spend_analysis,
   vendor_analysis |-> st.vendor_analysis,
   explanation |-> st.explanation,
   agent_decisions |-> st.agent_decisions,
   status |-> "completed"]

\* graph.ainvoke returns the final state and process_transaction returns
\* self._format_results(final_state).
ReturnResults ==
  /\ entry = "graph"
  /\ node = "END"
  /\ result' = FormatResults(state)
  /\ node' = "done"
  /\ UNCHANGED <<entry, txn, use_llm, supersteps, state>>
  /\ UNCHANGED api_vars
  /\ UNCHANGED policy_vars
  /\ UNCHANGED unit_vars

NextGraph ==
  \/ SupervisorNode
  \/ \E a \in Agents : AgentNode(a)
  \/ RecursionLimitReached
  \/ ReturnResults

SpecGraph == InitGraph /\ [][NextGraph]_vars

\* Both entry points.
InitAll == InitApi \/ InitGraph

NextAll == NextApi \/ NextGraph

SpecAll == InitAll /\ [][NextAll]_vars

\* ----------------------------- compliance/agent.py: the shared policy index

\* A transaction with nothing to find.
CleanTransaction ==
  [timestamp |-> "iso", det |-> UniformDet(NotRun), sanctions_match |-> FALSE,
   pep_match |-> FALSE, violations |-> 0]

\* get_compliance_agent() has built the global agent; its callers (threads
\* of one process) add policies and retrieve policies.
InitPolicy ==
  /\ entry = "policy"
  /\ txn = CleanTransaction
  /\ ApiIdle
  /\ use_llm = FALSE
  /\ GraphIdle
  /\ PolicyIdle
  /\ UnitIdle

\* What encode or index.add does inside add_policy: it returns or raises.
AddOutcomes == {"returns", "raises"}

\* add_policy, first statement: self.policy_texts.append(policy_text)
AddPolicyAppend(policy_text) ==
  /\ entry = "policy"
  /\ add_call.pc = "idle"
  /\ Len(policy_texts) < MaxPolicies
  /\ policy_texts' = Append(policy_texts, policy_text)
  /\ add_call' = [pc |-> "appended", policy_text |-> policy_text]
  /\ UNCHANGED <<entry, txn, policy_index, retrieve_call>>
  /\ UNCHANGED api_vars
  /\ UNCHANGED graph_vars
  /\ UNCHANGED unit_vars

\* add_policy, second statement:
\* new_embedding = self.embedding_model.encode([policy_text]).  An exception
\* ends the call and reaches the caller.
AddPolicyEncode ==
  /\ entry = "policy"
  /\ add_call.pc = "appended"
  /\ \E outcome \in AddOutcomes :
       add_call' = IF outcome = "returns"
                     THEN [pc |-> "encoded", policy_text |-> add_call.policy_text,
                           new_embedding |-> Embed(add_call.policy_text)]
                     ELSE NoCall
  /\ UNCHANGED <<entry, txn, policy_texts, policy_index, retrieve_call>>
  /\ UNCHANGED api_vars
  /\ UNCHANGED graph_vars
  /\ UNCHANGED unit_vars

\* add_policy, third statement: self.policy_index.add(new_embedding), then
\* the call returns.
AddPolicyIndexAdd ==
  /\ entry = "policy"
  /\ add_call.pc = "encoded"
  /\ \E outcome \in AddOutcomes :
       policy_index' = IF outcome = "returns"
                         THEN Append(policy_index, add_call.new_embedding)
                         ELSE policy_index
  /\ add_call' = NoCall
  /\ UNCHANGED <<entry, txn, policy_texts, retrieve_call>>
  /\ UNCHANGED api_vars
  /\ UNCHANGED graph_vars
  /\ UNCHANGED unit_vars

\* _retrieve_relevant_policies(transaction, k) up to the search: the query is
\* encoded and the index searched.
RetrieveSearch(k, q) ==
  /\ entry = "policy"
  /\ retrieve_call.pc = "idle"
  /\ retrieve_call' = [pc |-> "searched", k |-> k, query |-> q,
                   ntotal |-> Len(policy_index),
                   indices |-> Search(policy_index, q, k)]
  /\ UNCHANGED <<entry, txn, policy_texts, policy_index, add_call>>
  /\ UNCHANGED api_vars
  /\ UNCHANGED graph_vars
  /\ UNCHANGED unit_vars

\* relevant_policies = [self.policy_texts[idx] for idx in indices[0]]; an
\* index out of range raises IndexError.
RetrieveTexts ==
  /\ entry = "policy"
  /\ retrieve_call.pc = "searched"
  /\ retrieve_call' =
       IF \A r \in 1..retrieve_call.k : InRange(policy_texts, retrieve_call.indices[r])
         THEN [pc |-> "returned", k |-> retrieve_call.k, query |-> retrieve_call.query,
               ntotal |-> retrieve_call.ntotal, indices |-> retrieve_call.indices,
               relevant_policies |->
                 [r \in 1..retrieve_call.k |-> PyIndex(policy_texts, retrieve_call.indices[r])]]
         ELSE [pc |-> "raised"]
  /\ UNCHANGED <<entry, txn, policy_texts, policy_index, add_call>>
  /\ UNCHANGED api_vars
  /\ UNCHANGED graph_vars
  /\ UNCHANGED unit_vars

\* The caller has the result; the agent is free for the next retrieval.
RetrieveDone ==
  /\ entry = "policy"
  /\ retrieve_call.pc \in {"returned", "raised"}
  /\ retrieve_call' = NoCall
  /\ UNCHANGED <<entry, txn, policy_texts, policy_index, add_call>>
  /\ UNCHANGED api_vars
  /\ UNCHANGED graph_vars
  /\ UNCHANGED unit_vars

NextPolicy ==
  \/ \E policy_text \in PolicyTexts : AddPolicyAppend(policy_text)
  \/ AddPolicyEncode
  \/ AddPolicyIndexAdd
  \/ \E k \in 1..MaxK, q \in Queries : RetrieveSearch(k, q)
  \/ RetrieveTexts
  \/ RetrieveDone

SpecPolicy == InitPolicy /\ [][NextPolicy]_vars

\* ------------------------------------------- methods called on their own

\* The overall scores two results are tiered for.
Scores == { s \in 0..10000 : s % ScoreStep = 0 }

\* Two overall scores to be tiered by the chain of detect_fraud.
RiskLevelCalls == [fn : {"risk_level"}, a : Scores, b : Scores]

\* The if/elif chain of detect_fraud applied to the two scores.
TierScores ==
  /\ entry = "unit"
  /\ invocation.fn = "risk_level"
  /\ returned = None
  /\ returned' = [level_a |-> RiskLevel(invocation.a),
                  level_b |-> RiskLevel(invocation.b)]
  /\ UNCHANGED <<entry, txn, invocation>>
  /\ UNCHANGED api_vars
  /\ UNCHANGED graph_vars
  /\ UNCHANGED policy_vars

\* hash(text) of a str: keyed by the seed the process drew at its start
\* (PYTHONHASHSEED unset), so it is fixed within a process run and differs
\* between runs.
PyHash(text, seed) == (text + 1) * (seed + 3)

\* The hours a call may read from datetime.now().
ClockHours == {10, 23}

\* _extract_features for a record whose timestamp is an ISO string or whose
\* timestamp key is missing (then datetime.now() stands in), in a process
\* with the given hash seed, at the given time: amount, hour, late-hour
\* marker, category and merchant codes, velocity hints.
ExtractFeatures(record, seed, now_hour) ==
  LET hour == IF record.timestamp = "iso" THEN record.hour ELSE now_hour
  IN  <<record.amount, hour,
        PyHash(record.category, seed) % 100,
        PyHash(record.merchant, seed) % 100,
        record.daily_transaction_count>>

\* A record whose features are extracted twice: in processes with seeds
\* seed_1 and seed_2, at hours now_1 and now_2.
ExtractCalls ==
  [fn : {"extract_features"},
   record : [amount : {450}, timestamp : {"iso", "missing"}, hour : {10},
             category : 1..MaxField, merchant : 1..MaxField,
             daily_transaction_count : {1}],
   seed_1 : 0..MaxSeed, seed_2 : 0..MaxSeed,
   now_1 : ClockHours, now_2 : ClockHours]

\* The two calls of _extract_features.
ExtractTwice ==
  /\ entry = "unit"
  /\ invocation.fn = "extract_features"
  /\ returned = None
  /\ returned' =
       [first |-> ExtractFeatures(invocation.record, invocation.seed_1, invocation.now_1),
        second |-> ExtractFeatures(invocation.record, invocation.seed_2, invocation.now_2)]
  /\ UNCHANGED <<entry, txn, invocation>>
  /\ UNCHANGED api_vars
  /\ UNCHANGED graph_vars
  /\ UNCHANGED policy_vars

\* The characters of names: three letters, one of them also in upper case.
Characters == {"a", "b", "c", "A"}

\* str.lower() of one character.
LowerChar(c) == IF c = "A" THEN "a" ELSE c

\* str.lower()
Lower(text) == [i \in 1..Len(text) |-> LowerChar(text[i])]

\* needle in hay, for two str: hay has needle as a substring.
Contains(needle, hay) ==
  \E i \in 0..(Len(hay) - Len(needle)) : SubSeq(hay, i + 1, i + Len(needle)) = needle

\* self.sanctions_lists: entries with a canonical name, the list they come
\* from and their aliases.
sanctions_lists ==
  << [entity_name |-> <<"A", "b">>, list_type |-> "OFAC_SDN",
      aliases |-> << <<"c", "a">>, <<"A", "c">> >>],
     [entity_name |-> <<"b", "c">>, list_type |-> "EU_SANCTIONS",
      aliases |-> << <<"b", "b">> >>] >>

\* The test of the main name and of an alias in _check_sanctions.
SanctionNameMatches(listed, entity_lower) ==
  Contains(Lower(listed), entity_lower) \/ Contains(entity_lower, Lower(listed))

\* The alias loop without its break: an entry for every matching alias.
AliasMatchesNoBreak(sanction, entity_lower) ==
  LET hits == SelectSeq([i \in 1..Len(sanction.aliases) |-> i],
                        LAMBDA i : SanctionNameMatches(sanction.aliases[i], entity_lower))
  IN  [j \in 1..Len(hits) |->
         [kind |-> "alias", list_type |-> sanction.list_type,
          alias |-> sanction.aliases[hits[j]], entity_name |-> sanction.entity_name]]

\* The alias loop of _check_sanctions: the entry for the first matching
\* alias, then break.
AliasMatches(sanction, entity_lower) ==
  LET hits == { i \in 1..Len(sanction.aliases) :
                  SanctionNameMatches(sanction.aliases[i], entity_lower) }
  IN  IF hits = {} THEN <<>>
      ELSE << [kind |-> "alias", list_type |-> sanction.list_type,
               alias |-> sanction.aliases[CHOOSE i \in hits : \A j \in hits : i <= j],
               entity_name |-> sanction.entity_name] >>

\* The body of the loop over self.sanctions_lists for one entry: the main
\* name first (append, continue), else the aliases.
SanctionMatches(sanction, entity_lower) ==
  IF SanctionNameMatches(sanction.entity_name, entity_lower)
    THEN << [kind |-> "name", list_type |-> sanction.list_type,
             alias |-> <<>>, entity_name |-> sanction.entity_name] >>
    ELSE AliasMatches(sanction, entity_lower)

RECURSIVE MatchesFrom(_, _)
\* The matches appended for the entries from position i on.
MatchesFrom(i, entity_lower) ==
  IF i > Len(sanctions_lists) THEN <<>>
  ELSE SanctionMatches(sanctions_lists[i], entity_lower) \o MatchesFrom(i + 1, entity_lower)

\* ComplianceAgent._check_sanctions
check_sanctions(entity_name) ==
  LET matches == MatchesFrom(1, Lower(entity_name))
  IN  [hit |-> Len(matches) > 0, matches |-> matches]

\* The entity names screened.
EntityNames == UNION { [1..n -> Characters] : n \in 0..MaxNameLen }

SanctionsCalls == [fn : {"check_sanctions"}, entity_name : EntityNames]

\* agent._check_sanctions(entity_name)
CheckSanctions ==
  /\ entry = "unit"
  /\ invocation.fn = "check_sanctions"
  /\ returned = None
  /\ returned' = check_sanctions(invocation.entity_name)
  /\ UNCHANGED <<entry, txn, invocation>>
  /\ UNCHANGED api_vars
  /\ UNCHANGED graph_vars
  /\ UNCHANGED policy_vars

\* The policies of _initialize_policy_rag that a rule of
\* _check_policy_violations can bear on, each with the phrases of its text
\* (in lower case) that the rules look for or that name its threshold.
Policies ==
  { [id |-> "manager_approval",
     phrases |-> {"above $10,000", "manager approval"}],
    [id |-> "entertainment_limit",
     phrases |-> {"entertainment", "$500"}],
    [id |-> "travel_agency",
     phrases |-> {"travel"}],
    [id |-> "competitive_bids",
     phrases |-> {"competitive bids", "over $25,000"}] }

\* phrase in policy_lower
PolicyHas(policy, phrase) == phrase \in policy.phrases

\* The violations the four rules append for one policy, in the order of the
\* rules: each names the policy.
PolicyViolations(transaction, policy) ==
  (IF PolicyHas(policy, "above $10,000") /\ transaction.amount > 10000
        /\ ~transaction.manager_approval
     THEN <<policy.id>> ELSE <<>>)
  \o (IF PolicyHas(policy, "above $25,000") /\ transaction.amount > 25000
          /\ ~transaction.competitive_bids
       THEN <<policy.id>> ELSE <<>>)
  \o (IF PolicyHas(policy, "entertainment") /\ transaction.category = "entertainment"
          /\ transaction.amount > 500
       THEN <<policy.id>> ELSE <<>>)
  \o (IF PolicyHas(policy, "travel") /\ transaction.category = "travel"
          /\ ~transaction.corporate_booking
       THEN <<policy.id>> ELSE <<>>)

RECURSIVE ViolationsFrom(_, _, _)
\* The violations of the policies from position i on.
ViolationsFrom(i, transaction, policies) ==
  IF i > Len(policies) THEN <<>>
  ELSE PolicyViolations(transaction, policies[i])
         \o ViolationsFrom(i + 1, transaction, policies)

\* ComplianceAgent._check_policy_violations
check_policy_violations(transaction, policies) == ViolationsFrom(1, transaction, policies)

\* Lists of different policies, as a retrieval returns them.
RetrievedPolicies ==
  { ps \in UNION { [1..n -> Policies] : n \in 0..MaxRetrieved } :
      \A i, j \in 1..Len(ps) : i # j => ps[i] # ps[j] }

PolicyViolationCalls ==
  [fn : {"check_policy_violations"},
   transaction : [amount : {10000, 10001, 25000, 25001},
                  category : {"it services", "entertainment", "travel"},
                  manager_approval : BOOLEAN,
                  competitive_bids : BOOLEAN,
                  corporate_booking : BOOLEAN],
   policies : RetrievedPolicies]

\* agent._check_policy_violations(transaction, policies)
CheckPolicyViolations ==
  /\ entry = "unit"
  /\ invocation.fn = "check_policy_violations"
  /\ returned = None
  /\ returned' = [violations |->
                    check_policy_violations(invocation.transaction, invocation.policies)]
  /\ UNCHANGED <<entry, txn, invocation>>
  /\ UNCHANGED api_vars
  /\ UNCHANGED graph_vars
  /\ UNCHANGED policy_vars

\* SpendAnalysisAgent.DEFAULT_BUDGETS
DEFAULT_BUDGETS ==
  [travel |-> 50000, entertainment |-> 10000, it_services |-> 100000,
   consulting |-> 75000, supplies |-> 20000, training |-> 15000, other |-> 25000]

RECURSIVE SumSeq(_)
\* sum(...) over a list
SumSeq(amounts) ==
  IF amounts = <<>> THEN 0 ELSE Head(amounts) + SumSeq(Tail(amounts))

\* SpendAnalysisAgent.analyze_spending on transactions with these amounts:
\* total_spend and the overall budget_utilization
\* total_spend / total_budget, in hundredths.
analyze_spending(amounts) ==
  LET total_spend == SumSeq(amounts)
      total_budget == SumOver(DEFAULT_BUDGETS, DOMAIN DEFAULT_BUDGETS)
  IN  [total_spend |-> total_spend,
       budget_utilization |->
         IF total_budget > 0 THEN (total_spend * 100) \div total_budget ELSE 0]

\* Lists of amounts of up to MaxBatch transactions.
SpendCalls ==
  [fn : {"analyze_spending"},
   amounts : UNION { [1..n -> {0, 1000, 150000, 295000, 400000}] : n \in 0..MaxBatch }]

\* agent.analyze_spending(transactions)
AnalyzeSpending ==
  /\ entry = "unit"
  /\ invocation.fn = "analyze_spending"
  /\ returned = None
  /\ returned' = analyze_spending(invocation.amounts)
  /\ UNCHANGED <<entry, txn, invocation>>
  /\ UNCHANGED api_vars
  /\ UNCHANGED graph_vars
  /\ UNCHANGED policy_vars

\* budgets of simulate_spend_analysis
budgets ==
  [c \in {"IT Services", "Travel", "Entertainment", "Consulting", "Electronics", "Other"} |->
     CASE c = "IT Services" -> 100000
       [] c = "Travel" -> 50000
       [] c = "Entertainment" -> 10000
       [] c = "Consulting" -> 75000
       [] c = "Electronics" -> 50000
       [] c = "Other" -> 25000]

\* min(a, b)
Min(a, b) == IF a < b THEN a ELSE b

\* simulate_spend_analysis of standalone_api.py; utilization in hundredths.
simulate_spend_analysis(transaction) ==
  LET budget == IF transaction.category \in DOMAIN budgets
                  THEN budgets[transaction.category] ELSE 25000
      utilization == Min((transaction.amount * 100) \div budget, 100)
  IN  [total_spend |-> transaction.amount,
       budget_utilization |-> utilization,
       category |-> transaction.category,
       budget_limit |-> budget,
       over_budget |-> utilization > 100]

SimulateSpendCalls ==
  [fn : {"simulate_spend_analysis"},
   transaction : [amount : {1000, 10000, 10001, 25000, 25001, 50000, 50001, 120000},
                  category : {"Travel", "Entertainment", "Office Supplies"}]]

\* simulate_spend_analysis(transaction)
SimulateSpendAnalysis ==
  /\ entry = "unit"
  /\ invocation.fn = "simulate_spend_analysis"
  /\ returned = None
  /\ returned' = simulate_spend_analysis(invocation.transaction)
  /\ UNCHANGED <<entry, txn, invocation>>
  /\ UNCHANGED api_vars
  /\ UNCHANGED graph_vars
  /\ UNCHANGED policy_vars

\* FraudDetectionAgent.batch_detect: one detect_fraud per transaction, in
\* order.
batch_detect(transactions) ==
  [i \in 1..Len(transactions) |-> detect_fraud(transactions[i])]

\* The transactions of a batch: the ensemble's outcome is the same for the
\* five detectors.
BatchTransactions ==
  { t \in GraphTransactions : ~t.sanctions_match /\ ~t.pep_match }

BatchCalls ==
  [fn : {"batch_detect"},
   transactions : UNION { [1..n -> BatchTransactions] : n \in 0..MaxBatch }]

\* agent.batch_detect(transactions)
BatchDetect ==
  /\ entry = "unit"
  /\ invocation.fn = "batch_detect"
  /\ returned = None
  /\ returned' = [results |-> batch_detect(invocation.transactions)]
  /\ UNCHANGED <<entry, txn, invocation>>
  /\ UNCHANGED api_vars
  /\ UNCHANGED graph_vars
  /\ UNCHANGED policy_vars

\* The calls explored.
Invocations ==
  RiskLevelCalls \cup ExtractCalls \cup SanctionsCalls \cup PolicyViolationCalls
    \cup SpendCalls \cup SimulateSpendCalls \cup BatchCalls

\* A caller holds an agent and calls one of its methods.
InitUnit ==
  /\ entry = "unit"
  /\ txn = CleanTransaction
  /\ ApiIdle
  /\ use_llm = FALSE
  /\ GraphIdle
  /\ PolicyIdle
  /\ invocation \in Invocations
  /\ returned = None

NextUnit ==
  \/ TierScores
  \/ ExtractTwice
  \/ CheckSanctions
  \/ CheckPolicyViolations
  \/ AnalyzeSpending
  \/ SimulateSpendAnalysis
  \/ BatchDetect

SpecUnit == InitUnit /\ [][NextUnit]_vars

\* ------------------------------------------------------------------ claims

Range(seq) == { seq[i] : i \in 1..Len(seq) }

IsPrefix(a, b) == Len(a) <= Len(b) /\ SubSeq(b, 1, Len(a)) = a

ElevatedRisk == {"HIGH", "CRITICAL"}

\* C1: the overall_status of a response is REJECTED if the compliance status
\* is REJECTED; otherwise FLAGGED_FOR_REVIEW if the risk level is HIGH or
\* CRITICAL; otherwise REVIEW_REQUIRED if the compliance status is
\* REVIEW_REQUIRED; otherwise APPROVED.
C1_AggregationRule ==
  api_pc = "responded" =>
    LET s == compliance_result.status
        r == fraud_result.risk_level
        o == response.overall_status
    IN  /\ s = "REJECTED" => o = "REJECTED"
        /\ (s # "REJECTED" /\ r \in ElevatedRisk) => o = "FLAGGED_FOR_REVIEW"
        /\ (s = "REVIEW_REQUIRED" /\ r \notin ElevatedRisk) => o = "REVIEW_REQUIRED"
        /\ (s = "APPROVED" /\ r \notin ElevatedRisk) => o = "APPROVED"

\* C1 witness: a response in which a compliance status of REVIEW_REQUIRED
\* gives way to a CRITICAL risk level.
C1_Witness ==
  /\ api_pc = "responded"
  /\ compliance_result.status = "REVIEW_REQUIRED"
  /\ fraud_result.risk_level = "CRITICAL"
  /\ response.overall_status = "FLAGGED_FOR_REVIEW"

\* C2: a sanctions hit makes the compliance status REJECTED and the overall
\* status of the response REJECTED, whatever the fraud result.
C2_SanctionsPrecedence ==
  /\ (compliance_result # None /\ compliance_result.sanctions_hit)
       => compliance_result.status = "REJECTED"
  /\ (api_pc = "responded" /\ compliance_result.sanctions_hit)
       => response.overall_status = "REJECTED"

\* C2 witness: a response to a sanctioned merchant that also matches a PEP
\* term, on a transaction the ensemble scores CRITICAL.
C2_Witness ==
  /\ api_pc = "responded"
  /\ compliance_result.sanctions_hit
  /\ compliance_result.pep_hit
  /\ fraud_result.risk_level = "CRITICAL"
  /\ response.overall_status = "REJECTED"

AllDetectorsRaise == txn.timestamp = "iso" /\ \A m \in Detectors : txn.det[m].raised

\* C3: when every detector raises and compliance alone approves, the overall
\* status is not APPROVED.
C3_FailSafeDefault ==
  (api_pc = "responded" /\ AllDetectorsRaise
     /\ compliance_result.status = "APPROVED")
    => response.overall_status # "APPROVED"

ComplianceFailedInLog ==
  /\ \E i \in 1..Len(state.agent_decisions) :
       /\ state.agent_decisions[i].agent = "compliance"
       /\ "error" \in DOMAIN state.agent_decisions[i].result
  /\ state.compliance_status = "pending"

\* C4: when the compliance step raised, the caller still gets a disposition,
\* computed with the compliance status taken as REVIEW_REQUIRED.
C4_MissingAssessmentDefaults ==
  /\ api_pc = "http_500" =>
       /\ response # None
       /\ response.overall_status =
            OverallStatus("REVIEW_REQUIRED", fraud_result.risk_level)
  /\ (node = "done" /\ ComplianceFailedInLog) =>
       result.compliance_status = "REVIEW_REQUIRED"

\* C5: processing a transaction never ends in an exception.
C5_NeverRaises ==
  /\ api_pc # "http_500"
  /\ node \notin {"raised", "recursion_error"}

\* C6: a step that raises does not halt the pipeline: a handler that has
\* ended has invoked the later steps, and an agent node that raised has left
\* a failed entry and handed control back to the supervisor.
C6_FailureDoesNotHalt ==
  /\ api_pc \in {"http_500", "responded"} =>
       {"spend_analysis", "aggregation"} \subseteq Range(api_calls)
  /\ (entry = "graph" /\ state.compliance_status = "pending"
        /\ "compliance" \in { state.agent_decisions[i].agent :
                               i \in 1..Len(state.agent_decisions) })
       => ComplianceFailedInLog

\* C7: every execution of an agent node appends exactly one entry, for that
\* agent, to the end of agent_decisions and leaves the earlier entries as
\* they were.
C7_OneEntryPerStep ==
  [][(node \in Agents /\ node' = "supervisor") =>
       /\ Len(state'.agent_decisions) = Len(state.agent_decisions) + 1
       /\ IsPrefix(state.agent_decisions, state'.agent_decisions)
       /\ state'.agent_decisions[Len(state'.agent_decisions)].agent = node]_vars

FixedSequence == <<"fraud_detection", "compliance", "spend_analysis", "aggregation">>

\* The agents of the decision log, in log order.
LoggedAgents == [i \in 1..Len(state.agent_decisions) |-> state.agent_decisions[i].agent]

C9_RoutingReachesFinish == node # "recursion_error"

\* C10: a call that never returns is ended by a timeout: a blocked step always
\* has a step that ends it.
C10_NoCallBlocksForever ==
  (api_pc = "blocked" \/ node = "blocked") => ENABLED NextAll

\* Every vector of the index is the embedding of the text at its position,
\* and there are as many vectors as texts.
IndexAligned ==
  /\ Len(policy_texts) = Len(policy_index)
  /\ \A i \in 1..Len(policy_index) : policy_index[i] = Embed(policy_texts[i])

\* C11: once every add_policy call has ended, whether it returned or raised
\* in the embedding computation or the index insertion, there are as many
\* policy texts as vectors and vector i is the embedding of text i.
C11_TextsMatchIndex == add_call.pc = "idle" => IndexAligned

\* C12: every step of a retrieval, the search and the reading of the texts,
\* is taken in a state in which the text list and the index have the same
\* size and the same positions, also while an add_policy call is under way.
C12_ReadersSeeAlignedIndex ==
  [][(retrieve_call' # retrieve_call
        /\ retrieve_call'.pc \in {"searched", "returned", "raised"})
       => IndexAligned]_vars

\* C13: a retrieval that ran on an aligned index with no add_policy call
\* around it returns min(k, index size) texts; they are the texts of the
\* nearest vectors by increasing distance, the lower position first among
\* equally distant ones.
C13_RetrievalResult ==
  (retrieve_call.pc = "returned" /\ add_call.pc = "idle" /\ IndexAligned
     /\ retrieve_call.ntotal = Len(policy_index))
    => LET k == retrieve_call.k
           q == retrieve_call.query
           n == IF k < Len(policy_index) THEN k ELSE Len(policy_index)
           found == retrieve_call.relevant_policies
           at == retrieve_call.indices
       IN  /\ Len(found) = n
           /\ \A r \in 1..n : found[r] = policy_texts[at[r] + 1]
           /\ \A r \in 1..(n - 1) :
                \/ Distance(policy_index[at[r] + 1], q)
                     < Distance(policy_index[at[r + 1] + 1], q)
                \/ /\ Distance(policy_index[at[r] + 1], q)
                        = Distance(policy_index[at[r + 1] + 1], q)
                   /\ at[r] < at[r + 1]

\* C14: the status of a compliance result is REJECTED on a sanctions hit;
\* otherwise REVIEW_REQUIRED on a PEP hit, on any violation or on a risk score
\* above 0.7; otherwise APPROVED.  So APPROVED means no sanctions hit, no PEP
\* hit and no violation.
C14_StatusDecision ==
  compliance_result # None =>
    LET c == compliance_result
        review == c.pep_hit \/ c.violations > 0 \/ c.risk_score > 7
    IN  /\ c.sanctions_hit => c.status = "REJECTED"
        /\ (~c.sanctions_hit /\ review) => c.status = "REVIEW_REQUIRED"
        /\ (~c.sanctions_hit /\ ~review) => c.status = "APPROVED"
        /\ c.status = "APPROVED" =>
             (~c.sanctions_hit /\ ~c.pep_hit /\ c.violations = 0)

\* C14 witness: a single violation, with no sanctions or PEP hit, asks for a
\* review.
C14_Witness ==
  /\ compliance_result # None
  /\ ~compliance_result.sanctions_hit
  /\ ~compliance_result.pep_hit
  /\ compliance_result.violations = 1
  /\ compliance_result.status = "REVIEW_REQUIRED"

\* C15: the risk score of a compliance result is 0.8 for a sanctions hit plus
\* 0.3 for a PEP hit plus 0.1 for each violation, and 1.0 when that sum is
\* above 1.0; it lies in [0,1].
C15_RiskScoreFormula ==
  compliance_result # None =>
    LET c == compliance_result
        sum == (IF c.sanctions_hit THEN 8 ELSE 0) + (IF c.pep_hit THEN 3 ELSE 0)
                 + c.violations
    IN  /\ sum <= 10 => c.risk_score = sum
        /\ sum > 10 => c.risk_score = 10
        /\ c.risk_score \in 0..10

\* C15 witness: a sanctions hit, a PEP hit and violations sum to more than
\* 1.0 and the risk score is 1.0.
C15_Witness ==
  /\ compliance_result # None
  /\ compliance_result.sanctions_hit
  /\ compliance_result.pep_hit
  /\ compliance_result.violations = MaxViolations
  /\ compliance_result.risk_score = 10

\* The detectors that did not raise on the transaction.
Succeeded == { m \in Detectors : ~txn.det[m].raised }

\* C16: the overall_score of every fraud result lies in [0,1], whatever the
\* detectors score and whichever of them raise.
C16_OverallScoreInUnitInterval ==
  fraud_result # None =>
    (fraud_result.overall_score >= 0 /\ fraud_result.overall_score <= 10000)

\* C16 witness: the ensemble ran, one detector raised and the others gave the
\* top score of their distribution.
C16_Witness ==
  /\ fraud_result # None
  /\ ~fraud_result.error
  /\ Cardinality(Succeeded) = Cardinality(Detectors) - 1
  /\ \A m \in Succeeded : txn.det[m].score = txn.det[m].dmax /\ txn.det[m].dmax > 0
  /\ fraud_result.overall_score > 8500

\* C17: when fewer than two detectors succeed, the confidence of the fraud
\* result is 0.
C17_ConfidenceZeroBelowTwoDetectors ==
  (fraud_result # None /\ Cardinality(Succeeded) < 2) =>
    fraud_result.confidence = 0

\* C18: when detectors raise, detect_fraud still returns the ensemble's
\* result: a failed detector adds 0 to the weighted sum, every other detector
\* adds its weight times its normalized score, and a warning is logged for
\* each failed detector and for no other.
C18_PartialResultTolerance ==
  (fraud_result # None /\ txn.timestamp = "iso") =>
    /\ ~fraud_result.error
    /\ \A m \in Detectors \ Succeeded : fraud_result.anomaly_scores[m] = 0
    /\ fraud_result.overall_score =
         SumOver([m \in Detectors |->
                    IF m \in Succeeded
                      THEN weights[m] * (((txn.det[m].score - txn.det[m].dmin) * 100)
                                           \div (txn.det[m].dmax - txn.det[m].dmin + 1))
                      ELSE 0],
                 Detectors)
    /\ fraud_result.warned = Detectors \ Succeeded

\* C18 witness: two detectors raised, three scored above 0, and the result is
\* the weighted sum of the three.
C18_Witness ==
  /\ fraud_result # None
  /\ ~fraud_result.error
  /\ Cardinality(Succeeded) = 3
  /\ \A m \in Succeeded : fraud_result.anomaly_scores[m] > 0
  /\ fraud_result.overall_score > 0
  /\ Cardinality(fraud_result.warned) = 2

\* The fraud result comes from the ensemble, not from the except clause.
Scored == fraud_result # None /\ ~fraud_result.error

C20_ThresholdsAreLowerBounds ==
  Scored =>
    LET s == fraud_result.overall_score
        level == fraud_result.risk_level
    IN  /\ level = "CRITICAL" <=> s >= 8500
        /\ level = "HIGH" <=> (s >= 7000 /\ s < 8500)
        /\ level = "MEDIUM" <=> (s >= 5000 /\ s < 7000)
        /\ level = "LOW" <=> (s >= 3000 /\ s < 5000)

\* C20 (amended): the thresholds MEDIUM, HIGH and CRITICAL are the lower
\* bounds of their tiers; LOW is every score below the MEDIUM threshold, also
\* one below the LOW threshold, so every score has one of the four tiers.
C20_LowHasNoLowerBound ==
  Scored =>
    LET s == fraud_result.overall_score
        level == fraud_result.risk_level
    IN  /\ level \in {"LOW", "MEDIUM", "HIGH", "CRITICAL"}
        /\ level = "CRITICAL" <=> s >= THRESHOLDS.CRITICAL
        /\ level = "HIGH" <=> (s >= THRESHOLDS.HIGH /\ s < THRESHOLDS.CRITICAL)
        /\ level = "MEDIUM" <=> (s >= THRESHOLDS.MEDIUM /\ s < THRESHOLDS.HIGH)
        /\ level = "LOW" <=> s < THRESHOLDS.MEDIUM

\* C20 witness: a score below the LOW threshold is LOW.
C20_Witness ==
  /\ Scored
  /\ fraud_result.overall_score < THRESHOLDS.LOW
  /\ fraud_result.risk_level = "LOW"

\* The order LOW < MEDIUM < HIGH < CRITICAL.
TierRank(level) ==
  CASE level = "LOW" -> 1
    [] level = "MEDIUM" -> 2
    [] level = "HIGH" -> 3
    [] level = "CRITICAL" -> 4
    [] OTHER -> 0

\* The method of the call has returned.
Returned(fn) == invocation.fn = fn /\ returned # None

\* C21: of two scores A < B, the risk level of A is not above the risk level
\* of B.
C21_MonotonicTiering ==
  (Returned("risk_level") /\ invocation.a < invocation.b) =>
    TierRank(returned.level_a) <= TierRank(returned.level_b)

\* C21 witness: two scores on either side of the HIGH threshold, tiered
\* MEDIUM and HIGH.
C21_Witness ==
  /\ Returned("risk_level")
  /\ invocation.a < THRESHOLDS.HIGH
  /\ invocation.b >= THRESHOLDS.HIGH
  /\ returned.level_a = "MEDIUM"
  /\ returned.level_b = "HIGH"

\* C22: two calls of _extract_features on the same record return the same
\* feature vector, whenever and in whichever process runs they are made.
C22_ExtractionDeterministic ==
  Returned("extract_features") => returned.first = returned.second

\* One listed name and the screened name, compared in lower case: one
\* contains the other.
EitherContains(listed, name) ==
  LET l == Lower(listed)
      n == Lower(name)
  IN  (\E i \in 0..(Len(n) - Len(l)) : SubSeq(n, i + 1, i + Len(l)) = l)
        \/ (\E i \in 0..(Len(l) - Len(n)) : SubSeq(l, i + 1, i + Len(n)) = n)

\* The positions of the aliases of an entry that match the name.
MatchingAliases(e, name) ==
  { i \in 1..Len(e.aliases) : EitherContains(e.aliases[i], name) }

\* The positions of the entries that match the name by their canonical name
\* or an alias.
MatchingEntries(name) ==
  { i \in 1..Len(sanctions_lists) :
      \/ EitherContains(sanctions_lists[i].entity_name, name)
      \/ MatchingAliases(sanctions_lists[i], name) # {} }

\* C23: _check_sanctions reports a hit iff some entry's canonical name or
\* alias contains the name or is contained in it, case ignored; the matches
\* are one per matching entry, in list order, by the canonical name if that
\* matches and else by the first matching alias; so there are never more
\* matches than entries.
C23_SanctionsMatching ==
  Returned("check_sanctions") =>
    LET name == invocation.entity_name
        found == MatchingEntries(name)
        matches == returned.matches
        \* the position in the list of the entry behind the r-th match
        entryOf(r) == CHOOSE i \in found : Cardinality({ j \in found : j < i }) = r - 1
    IN  /\ returned.hit <=> found # {}
        /\ Len(matches) = Cardinality(found)
        /\ Len(matches) <= Len(sanctions_lists)
        /\ \A r \in 1..Len(matches) :
             LET e == sanctions_lists[entryOf(r)]
             IN  /\ matches[r].entity_name = e.entity_name
                 /\ matches[r].list_type = e.list_type
                 /\ IF EitherContains(e.entity_name, name)
                      THEN matches[r].kind = "name"
                      ELSE /\ matches[r].kind = "alias"
                           /\ matches[r].alias =
                                e.aliases[CHOOSE i \in MatchingAliases(e, name) :
                                            \A j \in MatchingAliases(e, name) : i <= j]

\* C23 witness: a name that two aliases of the first entry match and its
\* canonical name does not, and that the second entry does not match: one
\* match, by the first alias.
C23_Witness ==
  /\ Returned("check_sanctions")
  /\ Cardinality(MatchingAliases(sanctions_lists[1], invocation.entity_name)) = 2
  /\ ~EitherContains(sanctions_lists[1].entity_name, invocation.entity_name)
  /\ returned.hit
  /\ Len(returned.matches) = 1
  /\ returned.matches[1].kind = "alias"
  /\ returned.matches[1].alias = sanctions_lists[1].aliases[1]

\* C24: a transaction whose timestamp is missing or does not parse is
\* rejected before any step of the pipeline is invoked: the handler calls no
\* agent for it and the graph runs no node.
C24_MalformedInputRejected ==
  txn.timestamp # "iso" =>
    /\ api_calls = <<>>
    /\ supersteps = 0
    /\ state.agent_decisions = <<>>

\* C26: when policy retrieval raises, check_compliance still returns: a
\* result without policy violations whose status comes from the sanctions and
\* PEP signals alone.
C26_RetrievalFailureFallsBack ==
  api_pc = "http_500" =>
    /\ compliance_result # None
    /\ compliance_result.violations = 0
    /\ compliance_result.status =
         IF txn.sanctions_match THEN "REJECTED"
         ELSE IF txn.pep_match THEN "REVIEW_REQUIRED"
         ELSE "APPROVED"

\* C27: a detector whose score distribution is degenerate (maximum equal to
\* minimum) gets the normalized score 0.5.
C27_DegenerateNormalizesToHalf ==
  Scored =>
    \A m \in Succeeded :
      txn.det[m].dmax = txn.det[m].dmin => fraud_result.anomaly_scores[m] = 50

\* How many violations of the call name the policy.
ViolationsNaming(id) ==
  Cardinality({ i \in 1..Len(returned.violations) : returned.violations[i] = id })

\* The policy is among those handed to the call.
Retrieved(id) ==
  \E i \in 1..Len(invocation.policies) : invocation.policies[i].id = id

\* C25: a retrieved policy with an amount threshold yields a violation naming
\* it exactly when the amount is above the threshold and the supporting flag is
\* absent: manager_approval above $10,000, competitive_bids above $25,000.
C25_AmountThresholdViolations ==
  Returned("check_policy_violations") =>
    LET t == invocation.transaction
    IN  /\ Retrieved("manager_approval") =>
             ViolationsNaming("manager_approval") =
               (IF t.amount > 10000 /\ ~t.manager_approval THEN 1 ELSE 0)
        /\ Retrieved("competitive_bids") =>
             ViolationsNaming("competitive_bids") =
               (IF t.amount > 25000 /\ ~t.competitive_bids THEN 1 ELSE 0)

\* C28: the overall budget_utilization analyze_spending returns lies in
\* [0,1].
C28_UtilizationInUnitInterval ==
  Returned("analyze_spending") =>
    (returned.budget_utilization >= 0 /\ returned.budget_utilization <= 100)

\* C29: simulate_spend_analysis reports over_budget exactly when the amount
\* is above the budget limit of the category, 25000 for a category without a
\* configured budget.
C29_OverBudgetSignal ==
  Returned("simulate_spend_analysis") =>
    LET t == invocation.transaction
        limit == CASE t.category = "Travel" -> 50000
                   [] t.category = "Entertainment" -> 10000
                   [] OTHER -> 25000
    IN  returned.over_budget <=> t.amount > limit

\* C30: detect_fraud returns for every transaction; where feature extraction
\* fails it returns the safe default: overall_score 0.5, MEDIUM, confidence
\* 0.0, no anomaly scores, the one risk factor 'Error during analysis'.  So
\* batch_detect returns one result per transaction, in the order of the
\* transactions.
C30_SafeDefaultAndBatch ==
  Returned("batch_detect") =>
    LET inputs == invocation.transactions
        results == returned.results
    IN  /\ Len(results) = Len(inputs)
        /\ \A i \in 1..Len(inputs) :
             IF inputs[i].timestamp # "iso"
               THEN /\ results[i].overall_score = 5000
                    /\ results[i].risk_level = "MEDIUM"
                    /\ results[i].confidence = 0
                    /\ results[i].anomaly_scores = <<>>
                    /\ results[i].risk_factors = <<"Error during analysis">>
               ELSE /\ DOMAIN results[i].anomaly_scores = Detectors
                    /\ results[i].warned =
                         { m \in Detectors : inputs[i].det[m].raised }
                    /\ \A m \in Detectors :
                         results[i].anomaly_scores[m] > 0 <=>
                           inputs[i].det[m].score > inputs[i].det[m].dmin

\* C30 witness: a batch of a transaction whose timestamp does not parse and
\* one the ensemble scores: the default first, the scored result second.
C30_Witness ==
  /\ Returned("batch_detect")
  /\ Len(invocation.transactions) = 2
  /\ invocation.transactions[1].timestamp = "bad"
  /\ invocation.transactions[2].timestamp = "iso"
  /\ returned.results[1].error
  /\ returned.results[1].risk_level = "MEDIUM"
  /\ ~returned.results[2].error
  /\ returned.results[2].risk_level = "CRITICAL"

====
